---- MODULE Spec2Model ----
(***************************************************************************)
(* A model of fsmvhdlgenerator's finite-state-machine domain layer:        *)
(* boolean conditions and condition sets (finitestatemachine/condition.py),*)
(* states and state sets (finitestatemachine/state.py), transitions and    *)
(* transition sets (finitestatemachine/transition.py), the machine itself  *)
(* (finitestatemachine/moore_finite_state_machine.py) and the filtered     *)
(* collections underneath (utils/filtered_collections.py).                 *)
(*                                                                         *)
(* Objects are compared by identity in the code (no __eq__ / __hash__ on   *)
(* AbstractState, AbstractTransition or AbstractCondition), so every       *)
(* object is an integer handle and its fields live in a function from      *)
(* handles to values.  Collections are sets of handles.                    *)
(***************************************************************************)
EXTENDS Integers, Sequences, FiniteSets, TLC

VARIABLES
    conds,      \* Condition objects: handle -> expression tree
    condset,    \* a ConditionSet: set of Condition handles
    states,     \* State objects: handle -> [name, outputs]
    stateset,   \* a StateSet: set of State handles
    trans,      \* Transition objects: handle -> [source, destination, condition]
    transset,   \* a TransitionSet: set of Transition handles
    default_state, \* MooreFiniteStateMachine._default: a State handle or None
    tool,       \* DrawingArea: the tool whose handlers are bound to the mouse
    gen,        \* the generator held by the coroutine bound to the mouse
    default_transition, \* DrawingArea.default_transition: the State handle it
                \* points to, or None
    ret         \* the last method call: [op, args, raised, value]

vars == <<conds, condset, states, stateset, trans, transset, default_state, tool,
          gen, default_transition, ret>>

(***************************************************************************)
(* Bounds of the model.                                                    *)
(***************************************************************************)
MaxConds == 3
MaxStates == 2
MaxTrans == 3
MaxReplace == 2

\* None, where a State handle is expected (handles are positive).
None == 0

NoCall == [op |-> "none", args |-> <<>>, raised |-> "none", value |-> {}]

\* No coroutine is bound to the mouse.
NoGen == [function |-> "none", yields |-> 0, end_behavior |-> "none",
          received |-> <<>>, done |-> TRUE]

(***************************************************************************)
(* Expressions of the boolean.py algebra used by condition.py.  Every node *)
(* is a record [op, name, args]: literals TRUE / FALSE, Symbol(name),      *)
(* NOT(arg), and the n-ary AND(args...) / OR(args...).                     *)
(***************************************************************************)
Lit(b) == [op |-> "lit", name |-> IF b THEN "TRUE" ELSE "FALSE", args |-> <<>>]
Var(n) == [op |-> "var", name |-> n, args |-> <<>>]
Not(e) == [op |-> "not", name |-> "", args |-> <<e>>]
And(s) == [op |-> "and", name |-> "", args |-> s]
Or(s) == [op |-> "or", name |-> "", args |-> s]

T == Lit(TRUE)
F == Lit(FALSE)
X == Var("x")
Y == Var("y")

Symbols == {"x", "y"}

\* The condition texts of the test corpus, as algebra.parse builds them.
Catalogue ==
    { T, F, X, Not(X), Not(Y),
      Or(<<X, Y>>),                 \* 'x | y'
      And(<<X, Y>>),                \* 'x & y'
      And(<<Not(X), Y>>),           \* '~x & y'
      Or(<<X, Not(Y)>>),            \* 'x | ~y'
      And(<<Not(X), Not(Y)>>) }     \* '~x & ~y'

\* Truth value of an expression under an assignment of its symbols.
RECURSIVE Eval(_, _)
Eval(e, asg) ==
    CASE e.op = "lit" -> e.name = "TRUE"
      [] e.op = "var" -> asg[e.name]
      [] e.op = "not" -> ~Eval(e.args[1], asg)
      [] e.op = "and" -> \A i \in 1..Len(e.args) : Eval(e.args[i], asg)
      [] e.op = "or" -> \E i \in 1..Len(e.args) : Eval(e.args[i], asg)

Assignments == [Symbols -> BOOLEAN]

\* Expression.__eq__: literals and symbols by value, functions by class and
\* by the frozenset of their arguments (order and repetition do not count).
RECURSIVE ExprEq(_, _)
ExprEq(a, b) ==
    /\ a.op = b.op
    /\ a.name = b.name
    /\ \A i \in 1..Len(a.args) : \E j \in 1..Len(b.args) : ExprEq(a.args[i], b.args[j])
    /\ \A j \in 1..Len(b.args) : \E i \in 1..Len(a.args) : ExprEq(a.args[i], b.args[j])

\* `e in args`
Member(e, s) == \E i \in 1..Len(s) : ExprEq(e, s[i])

Dual(op) == IF op = "and" THEN "or" ELSE "and"
Mk(op, s) == [op |-> op, name |-> "", args |-> s]
\* DualBase.identity / DualBase.annihilator: AND has TRUE / FALSE, OR has FALSE / TRUE
Identity(op) == IF op = "and" THEN T ELSE F
Annihilator(op) == IF op = "and" THEN F ELSE T

\* NOT.cancel: strip pairs of nested negations.
RECURSIVE Cancel(_)
Cancel(e) ==
    IF e.op = "not" /\ e.args[1].op = "not"
    THEN Cancel(e.args[1].args[1])
    ELSE e

\* Expression.literalize / NOT.literalize / NOT.demorgan: move NOT inwards.
RECURSIVE Literalize(_)
Literalize(e) ==
    CASE e.op \in {"lit", "var"} -> e
      [] e.op \in {"and", "or"} ->
            Mk(e.op, [i \in 1..Len(e.args) |-> Literalize(e.args[i])])
      [] e.op = "not" ->
            LET c == Cancel(e) IN
            IF c.op # "not" THEN Literalize(c)
            ELSE IF c.args[1].op \in {"var", "lit"} THEN c  \* (no ~TRUE / ~FALSE arises here)
            ELSE LET inner == c.args[1] IN
                 Literalize(Mk(Dual(inner.op),
                               [i \in 1..Len(inner.args) |-> Cancel(Not(inner.args[i]))]))

\* DualBase.flatten: splice the arguments of same-class children in place.
RECURSIVE FlattenArgs(_, _)
FlattenArgs(op, s) ==
    IF s = <<>> THEN <<>>
    ELSE (IF Head(s).op = op THEN Head(s).args ELSE <<Head(s)>>) \o FlattenArgs(op, Tail(s))

\* Idempotence step of DualBase.simplify: keep the first of equal arguments.
RECURSIVE Dedupe(_, _)
Dedupe(s, seen) ==
    IF s = <<>> THEN seen
    ELSE Dedupe(Tail(s), IF Member(Head(s), seen) THEN seen ELSE Append(seen, Head(s)))

\* list.remove(x): drop the first element equal to x.
RECURSIVE RemoveFirst(_, _)
RemoveFirst(s, x) ==
    IF s = <<>> THEN <<>>
    ELSE IF ExprEq(Head(s), x) THEN Tail(s)
    ELSE <<Head(s)>> \o RemoveFirst(Tail(s), x)

\* The tail of DualBase.simplify once the arguments are simplified:
\* literalize, flatten, annihilation, idempotence, identity, complementation.
\* (The library's further elimination / absorption rewrites and the final
\* sort change the shape of a non-constant result only.)
SimplifyArgs(op, simplified) ==
    LET lit == Literalize(Mk(op, simplified))
        flat == FlattenArgs(op, lit.args)
        uniq == Dedupe(flat, <<>>)
        noid == IF Member(Identity(op), uniq) THEN RemoveFirst(uniq, Identity(op)) ELSE uniq
    IN  IF Member(Annihilator(op), flat) THEN Annihilator(op)
        ELSE IF Len(uniq) = 1 THEN uniq[1]
        ELSE IF Len(noid) = 1 THEN noid[1]
        ELSE IF \E i \in 1..Len(noid) : Member(Not(noid[i]), noid) THEN Annihilator(op)
        ELSE Mk(op, noid)

\* Expression.simplify (Symbol, BaseElement), NOT.simplify, DualBase.simplify.
RECURSIVE Simplify(_)
Simplify(e) ==
    CASE e.op \in {"lit", "var"} -> e
      [] e.op = "not" ->
            LET c == Cancel(e) IN
            IF c.op # "not" THEN Simplify(c)
            ELSE IF c.args[1].op = "lit" THEN Lit(c.args[1].name = "FALSE")
            ELSE Not(Simplify(c.args[1]))
      [] e.op \in {"and", "or"} ->
            SimplifyArgs(e.op, [i \in 1..Len(e.args) |-> Simplify(e.args[i])])

\* itertools.product over a sequence of sequences, as a sequence of combinations.
RECURSIVE Product(_)
Product(ss) ==
    IF ss = <<>> THEN << <<>> >>
    ELSE LET rest == Product(Tail(ss))
             h == Head(ss)
             n == Len(rest)
         IN  [k \in 1..(Len(h) * n) |->
                <<h[((k - 1) \div n) + 1]>> \o rest[((k - 1) % n) + 1]]

\* DualBase.distributive: A & (B|C) = (A&B) | (A&C), and dually.
Distributive(e) ==
    LET parts == [i \in 1..Len(e.args) |->
                    IF e.args[i].op = Dual(e.op) THEN e.args[i].args ELSE <<e.args[i]>>]
        prod == Product(parts)
        terms == [k \in 1..Len(prod) |-> Simplify(Mk(e.op, prod[k]))]
    IN  IF Len(terms) = 1 THEN terms[1] ELSE Mk(Dual(e.op), terms)

\* BooleanAlgebra._rdistributive towards the normal form whose outer
\* operation is `target`.
RECURSIVE RDistributive(_, _)
RDistributive(e, target) ==
    IF e.op \in {"lit", "var"} \/ (e.op = "not" /\ e.args[1].op = "var") THEN e
    ELSE LET args == [i \in 1..Len(e.args) |-> Simplify(RDistributive(e.args[i], target))]
         IN  IF Len(args) = 1 THEN args[1]
             ELSE IF e.op = Dual(target) THEN Distributive(Mk(e.op, args))
             ELSE Mk(e.op, args)

\* BooleanAlgebra.normalize / dnf / cnf.
Normalize(e, target) == Simplify(RDistributive(Simplify(Literalize(e)), target))
dnf(e) == Normalize(e, "or")
cnf(e) == Normalize(e, "and")

(***************************************************************************)
(* ConditionSet (condition.py).                                            *)
(***************************************************************************)
\* ConditionSet.expressions of the ConditionSet holding the handles in S, in
\* handle order.
RECURSIVE ExpressionsOf(_)
ExpressionsOf(S) ==
    IF S = {} THEN <<>>
    ELSE LET c == CHOOSE m \in S : \A o \in S : m <= o
         IN  <<conds[c]>> \o ExpressionsOf(S \ {c})

\* ConditionSet.exclusive with the pair combined by OR instead of AND.
exclusive_or(S) ==
    \A c1, c2 \in S :
        c1 < c2 => Simplify(dnf(Or(<<conds[c1], conds[c2]>>))) = F

\* ConditionSet.exclusive
exclusive(S) ==
    \A c1, c2 \in S :
        c1 < c2 => Simplify(dnf(And(<<conds[c1], conds[c2]>>))) = F

\* ConditionSet.exhaustive normalising to DNF instead of CNF.
exhaustive_dnf(S) ==
    Simplify(dnf(Or(<<F, F>> \o ExpressionsOf(S)))) = T

\* ConditionSet.exhaustive
exhaustive(S) ==
    Simplify(cnf(Or(<<F, F>> \o ExpressionsOf(S)))) = T

(***************************************************************************)
(* Operations on conditions and the condition set.                         *)
(***************************************************************************)
\* Condition(text): a new Condition object holding the parsed expression.
NewCondition(e) ==
    /\ Cardinality(DOMAIN conds) < MaxConds
    /\ conds' = conds @@ ((Cardinality(DOMAIN conds) + 1) :> e)
    /\ UNCHANGED <<condset, states, stateset, trans, transset, default_state, tool, gen,
                 default_transition, ret>>

\* ConditionSet.add(c)
CondSetAdd(c) ==
    /\ c \in DOMAIN conds
    /\ c \notin condset
    /\ condset' = condset \cup {c}
    /\ UNCHANGED <<conds, states, stateset, trans, transset, default_state, tool, gen,
                 default_transition, ret>>

\* ConditionSet.discard(c)
CondSetDiscard(c) ==
    /\ c \in condset
    /\ condset' = condset \ {c}
    /\ UNCHANGED <<conds, states, stateset, trans, transset, default_state, tool, gen,
                 default_transition, ret>>

EmptyFn == [h \in {} |-> 0]

InitCond ==
    /\ conds = EmptyFn
    /\ condset = {}
    /\ states = EmptyFn
    /\ stateset = {}
    /\ trans = EmptyFn
    /\ transset = {}
    /\ default_state = None
    /\ tool = "none"
    /\ gen = NoGen
    /\ default_transition = None
    /\ ret = NoCall

NextCond ==
    \/ \E e \in Catalogue : NewCondition(e)
    \/ \E c \in DOMAIN conds : CondSetAdd(c)
    \/ \E c \in condset : CondSetDiscard(c)

SpecCond == InitCond /\ [][NextCond]_vars

(***************************************************************************)
(* Claims about ConditionSet, checked under SpecCond.                      *)
(***************************************************************************)
\* Two members can be true together under some assignment of the symbols.
Overlap(c1, c2) == \E a \in Assignments : Eval(conds[c1], a) /\ Eval(conds[c2], a)

\* C1: ConditionSet.exclusive is true iff no two distinct member conditions
\* are true together under any assignment of the input symbols; it is true
\* for every set with at most one member.
C1_Exclusive ==
    /\ exclusive(condset) <=> (\A c1, c2 \in condset : c1 # c2 => ~Overlap(c1, c2))
    /\ Cardinality(condset) <= 1 => exclusive(condset)

\* A set of two or more satisfiable conditions that is exclusive.
C1_Witness ==
    /\ Cardinality(condset) >= 2
    /\ \A c \in condset : \E a \in Assignments : Eval(conds[c], a)
    /\ exclusive(condset)

\* C2: ConditionSet.exhaustive is true iff the set is non-empty and under
\* every assignment at least one member is true; the empty set is not
\* exhaustive and a set holding only TRUE is.
C2_Exhaustive ==
    /\ exhaustive(condset) <=>
            (condset # {} /\ \A a \in Assignments : \E c \in condset : Eval(conds[c], a))
    /\ condset = {} => ~exhaustive(condset)
    /\ (condset # {} /\ \A c \in condset : conds[c] = T) => exhaustive(condset)

\* An exhaustive set of three conditions none of which is a tautology.
C2_Witness ==
    /\ Cardinality(condset) = 3
    /\ \A c \in condset : \E a \in Assignments : ~Eval(conds[c], a)
    /\ exhaustive(condset)

(***************************************************************************)
(* State / StateSet (state.py).  A State object is [name, outputs]; its    *)
(* outputs map output names to 0 / 1.                                      *)
(***************************************************************************)
StateNames == {"s0", "s1"}
OutputNames == {"u", "v"}
OutputDicts == UNION {[K -> {0, 1}] : K \in SUBSET OutputNames}

\* AbstractState.output_identifiers
output_identifiers(s) == DOMAIN states[s].outputs

\* StateSet._output_identifiers: Counter of output name -> number of member
\* states carrying it (a Counter holds the names of positive count only).
OutputCount(S, o) == Cardinality({s \in S : o \in output_identifiers(s)})
OutputKeys(S) == {o \in OutputNames : OutputCount(S, o) > 0}

\* StateSet._name_identifiers: the keys of the Counter of member names.
NameKeys(S) == {states[s].name : s \in S}

\* StateSet.is_valid
is_valid(S) ==
    IF \E o \in OutputKeys(S) : OutputCount(S, o) # Cardinality(OutputKeys(S)) THEN FALSE
    ELSE IF Cardinality(S) # Cardinality(NameKeys(S)) THEN FALSE
    ELSE TRUE

\* State(name, outputs): a new State object.
NewState(name, outputs) ==
    /\ Cardinality(DOMAIN states) < MaxStates
    /\ states' = states @@
            ((Cardinality(DOMAIN states) + 1) :> [name |-> name, outputs |-> outputs])
    /\ UNCHANGED <<conds, condset, stateset, trans, transset, default_state, tool, gen,
                 default_transition, ret>>

\* StateSet.add(s)
StateSetAdd(s) ==
    /\ s \in DOMAIN states
    /\ s \notin stateset
    /\ stateset' = stateset \cup {s}
    /\ UNCHANGED <<conds, condset, states, trans, transset, default_state, tool, gen,
                 default_transition, ret>>

\* StateSet.discard(s)
StateSetDiscard(s) ==
    /\ s \in stateset
    /\ stateset' = stateset \ {s}
    /\ UNCHANGED <<conds, condset, states, trans, transset, default_state, tool, gen,
                 default_transition, ret>>

InitState == InitCond

NextState ==
    \/ \E n \in StateNames, o \in OutputDicts : NewState(n, o)
    \/ \E s \in DOMAIN states : StateSetAdd(s)
    \/ \E s \in stateset : StateSetDiscard(s)

SpecState == InitState /\ [][NextState]_vars

(***************************************************************************)
(* Claims about StateSet, checked under SpecState.                         *)
(***************************************************************************)
UniqueNames(S) == \A s1, s2 \in S : s1 # s2 => states[s1].name # states[s2].name

\* C4: StateSet.is_valid() is true iff (a) no two member states share a name
\* and (b) every distinct output name appears on the same number of member
\* states as every other distinct output name.
C4_IsValid ==
    is_valid(stateset) <=>
        /\ UniqueNames(stateset)
        /\ \A o1, o2 \in OutputKeys(stateset) :
                OutputCount(stateset, o1) = OutputCount(stateset, o2)

\* C5: a StateSet in which two members expose different sets of output
\* names is not valid.
C5_DifferingOutputsInvalid ==
    (\E s1, s2 \in stateset : output_identifiers(s1) # output_identifiers(s2))
        => ~is_valid(stateset)

(***************************************************************************)
(* Transition / TransitionSet (transition.py).  A Transition object is     *)
(* [source, destination, condition]: two State handles and a Condition     *)
(* handle.                                                                 *)
(***************************************************************************)
\* The states of tests/test_transition.py.
TestStates ==
    << [name |-> "s0", outputs |-> [o \in {"u"} |-> 1]],
       [name |-> "s1", outputs |-> [o \in {"u"} |-> 0]],
       [name |-> "s2", outputs |-> [o \in {"u"} |-> 0]] >>

Modes == {"and", "or", "xor"}

\* Truth value of `source` / `destination` in `if source and ...`: a State
\* object defines neither __bool__ nor __len__, None is false.
Truthy(s) == s # None

\* TransitionSet.sources / TransitionSet.destinations
sources(S) == {trans[t].source : t \in S}
destinations(S) == {trans[t].destination : t \in S}

\* TransitionSet.from_states with no fallback to 'or' when a filter is omitted.
from_states_strict(S, source, destination, mode) ==
    LET source_transitions == {t \in S : Truthy(source) /\ trans[t].source = source}
        destination_transitions ==
            {t \in S : Truthy(destination) /\ trans[t].destination = destination}
    IN  IF mode = "and"
        THEN [raised |-> "none", value |-> source_transitions \cap destination_transitions]
        ELSE IF mode = "or"
        THEN [raised |-> "none", value |-> source_transitions \cup destination_transitions]
        ELSE [raised |-> "ValueError", value |-> {}]

\* TransitionSet.from_states matching an omitted filter against every transition.
from_states_wild(S, source, destination, mode) ==
    LET source_transitions == {t \in S : Truthy(source) => trans[t].source = source}
        destination_transitions ==
            {t \in S : Truthy(destination) => trans[t].destination = destination}
    IN  IF mode = "and" /\ Truthy(source) /\ Truthy(destination)
        THEN [raised |-> "none", value |-> source_transitions \cap destination_transitions]
        ELSE IF mode = "or" \/ ~Truthy(source) \/ ~Truthy(destination)
        THEN [raised |-> "none", value |-> source_transitions \cup destination_transitions]
        ELSE [raised |-> "ValueError", value |-> {}]

\* TransitionSet.from_states with the two set operations exchanged.
from_states_swapped(S, source, destination, mode) ==
    LET source_transitions == {t \in S : Truthy(source) /\ trans[t].source = source}
        destination_transitions ==
            {t \in S : Truthy(destination) /\ trans[t].destination = destination}
    IN  IF mode = "and" /\ Truthy(source) /\ Truthy(destination)
        THEN [raised |-> "none", value |-> source_transitions \cup destination_transitions]
        ELSE IF mode = "or" \/ ~Truthy(source) \/ ~Truthy(destination)
        THEN [raised |-> "none", value |-> source_transitions \cap destination_transitions]
        ELSE [raised |-> "ValueError", value |-> {}]

\* TransitionSet.from_states
from_states(S, source, destination, mode) ==
    LET source_transitions == {t \in S : Truthy(source) /\ trans[t].source = source}
        destination_transitions ==
            {t \in S : Truthy(destination) /\ trans[t].destination = destination}
    IN  IF mode = "and" /\ Truthy(source) /\ Truthy(destination)
        THEN [raised |-> "none", value |-> source_transitions \cap destination_transitions]
        ELSE IF mode = "or" \/ ~Truthy(source) \/ ~Truthy(destination)
        THEN [raised |-> "none", value |-> source_transitions \cup destination_transitions]
        ELSE [raised |-> "ValueError", value |-> {}]

\* TransitionSet.check_reachability testing the unexitable states first.
check_reachability_swapped(S) ==
    LET unreachable_states == sources(S) \ destinations(S)
        unexitable_states == destinations(S) \ sources(S)
    IN  IF unexitable_states # {} THEN "UnexitableState"
        ELSE IF unreachable_states # {} THEN "UnreachableState"
        ELSE "none"

\* TransitionSet.check_reachability: the exception raised, "none" when it
\* returns True.
check_reachability(S) ==
    LET unreachable_states == sources(S) \ destinations(S)
        unexitable_states == destinations(S) \ sources(S)
    IN  IF unreachable_states # {} THEN "UnreachableState"
        ELSE IF unexitable_states # {} THEN "UnexitableState"
        ELSE "none"

\* transitions.add(Transition(s, d, Condition(e))): a new Condition object, a
\* new Transition object holding it, added to the TransitionSet.
AddTransition(s, d, e) ==
    /\ ret = NoCall
    /\ Cardinality(DOMAIN trans) < MaxTrans
    /\ LET c == Cardinality(DOMAIN conds) + 1
           t == Cardinality(DOMAIN trans) + 1
       IN  /\ conds' = conds @@ (c :> e)
           /\ trans' = trans @@ (t :> [source |-> s, destination |-> d, condition |-> c])
           /\ transset' = transset \cup {t}
    /\ UNCHANGED <<condset, states, stateset, default_state, tool, gen,
                 default_transition, ret>>

\* A call transitions.from_states(source, destination, mode).
CallFromStates(s, d, m) ==
    /\ ret = NoCall
    /\ LET r == from_states(transset, s, d, m)
       IN  ret' = [op |-> "from_states", args |-> <<s, d, m>>,
                   raised |-> r.raised, value |-> r.value]
    /\ UNCHANGED <<conds, condset, states, stateset, trans, transset, default_state, tool, gen,
                 default_transition>>

\* A call transitions.check_reachability().
CallCheckReachability ==
    /\ ret = NoCall
    /\ ret' = [op |-> "check_reachability", args |-> <<>>,
               raised |-> check_reachability(transset), value |-> {}]
    /\ UNCHANGED <<conds, condset, states, stateset, trans, transset, default_state, tool, gen,
                 default_transition>>

\* The caller takes the outcome of the call; calls are synchronous, one at a
\* time.
Return ==
    /\ ret # NoCall
    /\ ret' = NoCall
    /\ UNCHANGED <<conds, condset, states, stateset, trans, transset, default_state, tool, gen,
                 default_transition>>

Init ==
    /\ conds = EmptyFn
    /\ condset = {}
    /\ states = TestStates
    /\ stateset = {}
    /\ trans = EmptyFn
    /\ transset = {}
    /\ default_state = None
    /\ tool = "none"
    /\ gen = NoGen
    /\ default_transition = None
    /\ ret = NoCall

Next ==
    \/ \E s, d \in DOMAIN states : AddTransition(s, d, T)
    \/ \E s, d \in {None} \cup DOMAIN states, m \in Modes : CallFromStates(s, d, m)
    \/ CallCheckReachability
    \/ Return

Spec == Init /\ [][Next]_vars

(***************************************************************************)
(* Claims about TransitionSet filtering and reachability, checked under    *)
(* Spec.                                                                   *)
(***************************************************************************)
SourceOnly == sources(transset) \ destinations(transset)
DestinationOnly == destinations(transset) \ sources(transset)

\* C3 as stated: check_reachability() fails with UnreachableState when some
\* state is a source but never a destination, fails with UnexitableState
\* when some state is a destination but never a source, and returns true
\* only when the source states equal the destination states.
C3_Reachability_Stated ==
    ret.op = "check_reachability" =>
        /\ SourceOnly # {} => ret.raised = "UnreachableState"
        /\ DestinationOnly # {} => ret.raised = "UnexitableState"
        /\ ret.raised = "none" => sources(transset) = destinations(transset)

\* C3 amended: UnreachableState when some state is a source but never a
\* destination; UnexitableState when some state is a destination but never
\* a source and no state is a source only; true exactly when the source
\* states equal the destination states.
C3_Reachability ==
    ret.op = "check_reachability" =>
        /\ SourceOnly # {} => ret.raised = "UnreachableState"
        /\ (DestinationOnly # {} /\ SourceOnly = {}) => ret.raised = "UnexitableState"
        /\ ret.raised = "none" <=> sources(transset) = destinations(transset)

\* check_reachability() was called on a set with a source-only state and a
\* destination-only state.
C3_Witness ==
    /\ ret.op = "check_reachability"
    /\ SourceOnly # {}
    /\ DestinationOnly # {}

WithSource(s) == {t \in transset : trans[t].source = s}
WithDestination(d) == {t \in transset : trans[t].destination = d}

\* C6 as stated: from_states(source=s), default mode, no destination,
\* returns every member transition that has s as its source or as its
\* destination.
C6_EitherEndpoint_Stated ==
    (ret.op = "from_states" /\ ret.args[1] # None /\ ret.args[2] = None
        /\ ret.args[3] = "and") =>
        /\ ret.raised = "none"
        /\ (WithSource(ret.args[1]) \cup WithDestination(ret.args[1])) \subseteq ret.value

\* C6 amended: from_states(source=s), default mode, no destination, returns
\* exactly the member transitions that have s as their source.
C6_SourceEndpoint ==
    (ret.op = "from_states" /\ ret.args[1] # None /\ ret.args[2] = None
        /\ ret.args[3] = "and") =>
        /\ ret.raised = "none"
        /\ ret.value = WithSource(ret.args[1])

\* from_states(source=s) was called where s is the source of one member and
\* only the destination of another.
C6_Witness ==
    /\ ret.op = "from_states" /\ ret.args[1] # None /\ ret.args[2] = None
    /\ ret.args[3] = "and"
    /\ ret.value # {}
    /\ WithDestination(ret.args[1]) \ WithSource(ret.args[1]) # {}

\* C7: an omitted filter contributes no matches: source alone gives exactly
\* the transitions leaving it, destination alone exactly those entering it,
\* neither filter the empty set.
C7_OmittedFilter ==
    ret.op = "from_states" =>
        /\ (ret.args[1] # None /\ ret.args[2] = None) =>
                ret.raised = "none" /\ ret.value = WithSource(ret.args[1])
        /\ (ret.args[1] = None /\ ret.args[2] # None) =>
                ret.raised = "none" /\ ret.value = WithDestination(ret.args[2])
        /\ (ret.args[1] = None /\ ret.args[2] = None) =>
                ret.raised = "none" /\ ret.value = {}

\* from_states(destination=d) was called where d is entered by one member
\* and only left by another.
C7_Witness ==
    /\ ret.op = "from_states" /\ ret.args[1] = None /\ ret.args[2] # None
    /\ ret.value # {}
    /\ WithSource(ret.args[2]) \ WithDestination(ret.args[2]) # {}

\* C8: with both filters, mode 'and' returns exactly the transitions from s
\* to d and mode 'or' exactly those from s or to d: the intersection and the
\* union of the two single-filter results, the first inside the second.
C8_AndOr ==
    (ret.op = "from_states" /\ ret.args[1] # None /\ ret.args[2] # None) =>
        LET s == ret.args[1]
            d == ret.args[2]
            only_s == from_states(transset, s, None, "and").value
            only_d == from_states(transset, None, d, "and").value
            both_and == from_states(transset, s, d, "and").value
            both_or == from_states(transset, s, d, "or").value
        IN  /\ ret.args[3] = "and" =>
                /\ ret.raised = "none"
                /\ ret.value = WithSource(s) \cap WithDestination(d)
                /\ ret.value = only_s \cap only_d
            /\ ret.args[3] = "or" =>
                /\ ret.raised = "none"
                /\ ret.value = WithSource(s) \cup WithDestination(d)
                /\ ret.value = only_s \cup only_d
            /\ both_and \subseteq both_or

\* from_states(s, d, 'and') returned a non-empty set strictly smaller than
\* the 'or' result.
C8_Witness ==
    /\ ret.op = "from_states" /\ ret.args[1] # None /\ ret.args[2] # None
    /\ ret.args[3] = "and"
    /\ ret.value # {}
    /\ ret.value # from_states(transset, ret.args[1], ret.args[2], "or").value

\* C9 as stated: an unrecognized mode fails with ValueError whether or not
\* both filters are supplied.
C9_BadMode_Stated ==
    (ret.op = "from_states" /\ ret.args[3] \notin {"and", "or"}) =>
        ret.raised = "ValueError"

\* C9 amended: an unrecognized mode fails with ValueError when both filters
\* are supplied; when a filter is omitted the mode is not looked at and the
\* matches of the supplied filter are returned.
C9_BadMode ==
    (ret.op = "from_states" /\ ret.args[3] \notin {"and", "or"}) =>
        IF ret.args[1] # None /\ ret.args[2] # None
        THEN ret.raised = "ValueError"
        ELSE /\ ret.raised = "none"
             /\ ret.value = from_states(transset, ret.args[1], ret.args[2], "or").value

\* from_states was called with an unrecognized mode and both filters, on a
\* set holding a transition from the one to the other.
C9_Witness ==
    /\ ret.op = "from_states" /\ ret.args[3] \notin {"and", "or"}
    /\ ret.args[1] # None /\ ret.args[2] # None
    /\ WithSource(ret.args[1]) \cap WithDestination(ret.args[2]) # {}
    /\ ret.raised = "ValueError"

(***************************************************************************)
(* Evaluation of conditions under input bindings (condition.py,            *)
(* transition.py).                                                         *)
(***************************************************************************)
\* Keyword arguments of evaluate(): some symbols bound to 0 or 1.
Bindings == UNION {[K -> {0, 1}] : K \in SUBSET Symbols}

\* algebra.parse(str(v)) for v in 0, 1
ParseValue(v) == IF v = 1 THEN T ELSE F

\* Expression._subs with simplify=True: [changed, e], changed FALSE where the
\* library returns None (nothing was substituted below this node).
RECURSIVE SubsR(_, _)
SubsR(e, b) ==
    CASE e.op = "lit" -> [changed |-> TRUE, e |-> e]
      [] e.op = "var" -> [changed |-> FALSE, e |-> e]
      [] OTHER ->
            LET sub == [i \in 1..Len(e.args) |->
                          IF e.args[i].op = "var" /\ e.args[i].name \in DOMAIN b
                          THEN [changed |-> TRUE, e |-> ParseValue(b[e.args[i].name])]
                          ELSE SubsR(e.args[i], b)]
            IN  IF \A i \in 1..Len(sub) : ~sub[i].changed
                THEN [changed |-> FALSE, e |-> e]
                ELSE [changed |-> TRUE,
                      e |-> Simplify([op |-> e.op, name |-> "",
                                      args |-> [i \in 1..Len(sub) |-> sub[i].e]])]

\* Expression.subs with simplify=False: the bound symbols replaced, nothing
\* rewritten.
RECURSIVE Replaced(_, _)
Replaced(e, b) ==
    CASE e.op = "lit" -> e
      [] e.op = "var" -> IF e.name \in DOMAIN b THEN ParseValue(b[e.name]) ELSE e
      [] OTHER -> [op |-> e.op, name |-> "",
                   args |-> [i \in 1..Len(e.args) |-> Replaced(e.args[i], b)]]

\* AbstractCondition.evaluate without the simplification.
Condition_evaluate_unsimplified(e, b) == Replaced(e, b)

\* AbstractCondition.evaluate: expression.subs(substitutions, simplify=True)
Condition_evaluate(e, b) ==
    IF e.op = "var" /\ e.name \in DOMAIN b THEN ParseValue(b[e.name])
    ELSE SubsR(e, b).e

\* Truth value of an expression object in `if`: TRUE and FALSE are true and
\* false, any other Expression refuses (Expression.__bool__ raises TypeError).
ExprBool(e) == IF e = T THEN "true" ELSE IF e = F THEN "false" ELSE "TypeError"

\* TransitionSet.evaluate
evaluate(S, b) ==
    LET truth == [t \in S |-> ExprBool(Condition_evaluate(conds[trans[t].condition], b))]
    IN  IF \E t \in S : truth[t] = "TypeError"
        THEN [raised |-> "TypeError", value |-> {}]
        ELSE [raised |-> "none", value |-> {t \in S : truth[t] = "true"}]

\* A call transitions.evaluate(**b).
CallEvaluate(b) ==
    /\ ret = NoCall
    /\ LET r == evaluate(transset, b)
       IN  ret' = [op |-> "evaluate", args |-> <<b>>,
                   raised |-> r.raised, value |-> r.value]
    /\ UNCHANGED <<conds, condset, states, stateset, trans, transset, default_state, tool, gen,
                 default_transition>>

InitEval == Init

NextEval ==
    \/ \E e \in Catalogue : AddTransition(1, 2, e)
    \/ \E b \in Bindings : CallEvaluate(b)
    \/ Return

SpecEval == InitEval /\ [][NextEval]_vars

\* C10: TransitionSet.evaluate(bindings) returns exactly the member
\* transitions whose condition, after substituting the bindings and
\* simplifying, is the TRUE literal; a condition that comes out FALSE or
\* still symbolic leaves its transition out, and the call does not fail.
C10_Evaluate ==
    ret.op = "evaluate" =>
        /\ ret.raised = "none"
        /\ ret.value =
             {t \in transset :
                 Condition_evaluate(conds[trans[t].condition], ret.args[1]) = T}

(***************************************************************************)
(* Lowering of a condition to VHDL text (condition.py).  A text is the     *)
(* sequence of its pieces, read as their concatenation.                    *)
(***************************************************************************)
Z == Var("z")

\* The expressions of tests/test_condition.py's conversion corpus, as
\* algebra.parse builds them (no simplification), and negations of compound
\* operands.
VhdlCatalogue ==
    { T, F, X,
      Or(<<X, Y, Z>>),                                  \* 'x|y|z'
      And(<<X, Y, Z>>),                                 \* 'x&y&z'
      And(<<X, Or(<<Y, Z>>)>>),                         \* 'x&(y|z)'
      Or(<<X, And(<<Y, Z>>)>>),                         \* 'x|(y&z)'
      And(<<X, Or(<<Y, Not(Z)>>)>>),                    \* 'x&(y|~z)'
      Or(<<Not(X), And(<<Y, Z>>)>>),                    \* '~x|(y&z)'
      Or(<<And(<<X, Y>>), And(<<X, Not(Y)>>)>>),        \* '(x&y)|(x&~y)'
      And(<<Or(<<X, Y>>), Or(<<X, Not(Y)>>)>>),         \* '(x|y)&(x|~y)'
      Not(X),                                           \* '~x'
      Not(Not(X)),                                      \* '~~x'
      Not(And(<<X, Y>>)),                               \* '~(x&y)'
      Not(Or(<<X, Not(Y)>>)),                           \* '~(x|~y)'
      Not(Or(<<X, Not(X)>>)),                           \* '~(x|~x)'
      And(<<Z, Not(Or(<<X, Y>>))>>) }                   \* 'z&~(x|y)'

\* Expression.symbols: the names of the symbols occurring in an expression.
RECURSIVE symbols(_)
symbols(e) ==
    IF e.op = "var" THEN {e.name}
    ELSE UNION {symbols(e.args[i]) : i \in 1..Len(e.args)}

\* AbstractCondition._operation_list with AND and OR exchanged in rank.
precedence_swapped(op) ==
    CASE op = "or" -> 2
      [] op = "and" -> 1
      [] op = "not" -> 3
      [] OTHER -> 0

\* AbstractCondition._operation_list: 'precedence' of the operation of a node.
precedence(op) ==
    CASE op = "or" -> 1
      [] op = "and" -> 2
      [] op = "not" -> 3
      [] OTHER -> 0

\* AbstractCondition._operation_list: 'sub', the text of the operator.
sub(op) ==
    CASE op = "or" -> " or "
      [] op = "and" -> " and "
      [] op = "not" -> "not "
      [] OTHER -> ""

\* str.join: the parts with the separator between neighbours.
RECURSIVE Join(_, _)
Join(sep, parts) ==
    IF parts = <<>> THEN <<>>
    ELSE IF Len(parts) = 1 THEN parts[1]
    ELSE parts[1] \o <<sep>> \o Join(sep, Tail(parts))

\* AbstractCondition._vhdl._convert_r
RECURSIVE convert_r(_, _)
convert_r(expression, last_operator_precednce) ==
    CASE expression.op \in {"or", "and"} ->
            LET subexp == Join(sub(expression.op),
                               [i \in 1..Len(expression.args) |->
                                   convert_r(expression.args[i], precedence(expression.op))])
            IN  IF precedence(expression.op) < last_operator_precednce
                THEN <<"(">> \o subexp \o <<")">>
                ELSE subexp
      [] expression.op = "not" ->
            LET sym == symbols(expression)
            IN  IF Cardinality(sym) = 1
                THEN <<CHOOSE n \in sym : TRUE, "='0'">>
                ELSE <<sub("not"), "(">>
                        \o convert_r(expression.args[1], precedence("not")) \o <<")">>
      [] expression.op = "var" -> <<expression.name, "='1'">>
      [] expression.op = "lit" -> <<IF expression.name = "TRUE" THEN "true" ELSE "false">>

\* AbstractCondition._vhdl / AbstractCondition.vhdl
vhdl(e) == convert_r(e, 0)

InitVhdl == InitCond

NextVhdl == \E e \in VhdlCatalogue : NewCondition(e)

SpecVhdl == InitVhdl /\ [][NextVhdl]_vars

(***************************************************************************)
(* Claims about the VHDL text, checked under SpecVhdl.                     *)
(***************************************************************************)
\* How tightly an operator binds: OR = 1 < AND = 2 < NOT = 3.
Binds(op) == IF op = "or" THEN 1 ELSE IF op = "and" THEN 2 ELSE IF op = "not" THEN 3 ELSE 0

\* The text of e as an operand of `parent` ("top" for the whole expression):
\* an And / Or is its operands' texts in operand order joined by ' and ' /
\* ' or ', in parentheses iff it binds looser than its parent; where the text
\* of a negation spells out its operand, the operand is an operand of NOT.
RECURSIVE Lowered(_, _)
Lowered(e, parent) ==
    IF e.op \in {"and", "or"}
    THEN LET body == Join(IF e.op = "and" THEN " and " ELSE " or ",
                          [i \in 1..Len(e.args) |-> Lowered(e.args[i], e.op)])
         IN  IF parent # "top" /\ Binds(e.op) < Binds(parent)
             THEN <<"(">> \o body \o <<")">>
             ELSE body
    ELSE IF e.op = "not" /\ Head(vhdl(e)) = "not "
    THEN <<"not ", "(">> \o Lowered(e.args[1], "not") \o <<")">>
    ELSE vhdl(e)

\* C11: in Condition.vhdl an And / Or subexpression is in parentheses iff
\* its operator binds looser than its parent's (OR < AND < NOT): an Or under
\* And is parenthesized, an And under Or is not, the whole expression never
\* is, and the operands of an n-ary And / Or are joined in operand order
\* with ' and ' / ' or '.
C11_Parentheses ==
    \A c \in DOMAIN conds : vhdl(conds[c]) = Lowered(conds[c], "top")

\* A condition that is an And with an Or operand, one that is an Or with an
\* And operand, and one with an Or under NOT have been lowered.
C11_Witness ==
    /\ \E c \in DOMAIN conds :
          /\ conds[c].op = "and"
          /\ \E i \in 1..Len(conds[c].args) : conds[c].args[i].op = "or"
          /\ Head(vhdl(conds[c])) # "("
    /\ \E c \in DOMAIN conds :
          /\ conds[c].op = "or"
          /\ \E i \in 1..Len(conds[c].args) : conds[c].args[i].op = "and"
    /\ \E c \in DOMAIN conds :
          /\ conds[c].op = "not"
          /\ conds[c].args[1].op = "or"
          /\ Head(vhdl(conds[c])) = "not "

\* C12: lowering Not(e): when the operand e is a single variable n the text
\* is n='0'; when e is a compound operand (an And, an Or or another Not) the
\* text is 'not (' followed by the lowered operand followed by ')'.
C12_Negation ==
    \A c \in DOMAIN conds :
        LET e == conds[c] IN
        e.op = "not" =>
            /\ e.args[1].op = "var" => vhdl(e) = <<e.args[1].name, "='0'">>
            /\ e.args[1].op \in {"and", "or", "not"} =>
                  \/ vhdl(e) = <<"not ", "(">> \o vhdl(e.args[1]) \o <<")">>
                  \/ vhdl(e) = <<"not ", "(">>
                                  \o convert_r(e.args[1], precedence("not")) \o <<")">>

(***************************************************************************)
(* Condition.evaluate (condition.py), checked under SpecCondEval.          *)
(***************************************************************************)
\* A call condition.evaluate(**b) on the Condition c; the expression before
\* the call is kept with the arguments.
CallConditionEvaluate(c, b) ==
    /\ ret = NoCall
    /\ c \in DOMAIN conds
    /\ ret' = [op |-> "condition_evaluate", args |-> <<c, b, conds[c]>>,
               raised |-> "none", value |-> {Condition_evaluate(conds[c], b)}]
    /\ UNCHANGED <<conds, condset, states, stateset, trans, transset, default_state, tool, gen,
                 default_transition>>

InitCondEval == InitCond

NextCondEval ==
    \/ \E e \in Catalogue : ret = NoCall /\ NewCondition(e)
    \/ \E c \in DOMAIN conds, b \in Bindings : CallConditionEvaluate(c, b)
    \/ Return

SpecCondEval == InitCondEval /\ [][NextCondEval]_vars

\* The assignment a gives every bound symbol its bound value.
Agrees(a, b) == \A n \in DOMAIN b : a[n] = (b[n] = 1)

\* The bindings b and b2 bind the symbols of e alike.
SameOn(e, b, b2) ==
    /\ DOMAIN b \cap symbols(e) = DOMAIN b2 \cap symbols(e)
    /\ \A n \in DOMAIN b \cap symbols(e) : b[n] = b2[n]

\* C13: Condition.evaluate(bindings) substitutes the bound variables and
\* simplifies: the result is logically equivalent to the expression
\* restricted by the bindings; it is the TRUE / FALSE literal of the
\* expression's truth value when the bindings cover every symbol; bindings
\* for names that do not occur have no effect; the Condition's expression
\* is unchanged.
C13_ConditionEvaluate ==
    ret.op = "condition_evaluate" =>
        LET c == ret.args[1]
            b == ret.args[2]
            e == ret.args[3]
        IN  /\ ret.raised = "none"
            /\ \A r \in ret.value :
                  /\ \A a \in Assignments : Agrees(a, b) => Eval(r, a) = Eval(e, a)
                  /\ symbols(e) \subseteq DOMAIN b =>
                        \A a \in Assignments : Agrees(a, b) => r = Lit(Eval(e, a))
                  /\ \A b2 \in Bindings : SameOn(e, b, b2) => Condition_evaluate(e, b2) = r
            /\ Cardinality(ret.value) = 1
            /\ conds[c] = e

\* evaluate() was called with bindings for some but not all symbols of the
\* expression, and returned a smaller expression that is still symbolic.
C13_Witness ==
    /\ ret.op = "condition_evaluate"
    /\ DOMAIN ret.args[2] \cap symbols(ret.args[3]) # {}
    /\ ~(symbols(ret.args[3]) \subseteq DOMAIN ret.args[2])
    /\ \E r \in ret.value : r.op = "var" /\ r # ret.args[3]

(***************************************************************************)
(* OutputsDict (state.py, utils/filtered_collections.py).  A Python value  *)
(* handed to the mapping is [type, text]: its class and its repr.          *)
(***************************************************************************)
PyValue(type, text) == [type |-> type, text |-> text]

PyValues ==
    { PyValue("int", "0"), PyValue("int", "1"), PyValue("int", "2"),
      PyValue("str", "0"), PyValue("str", "1"), PyValue("str", "a"),
      PyValue("bool", "False"), PyValue("bool", "True"),
      PyValue("float", "0.0"), PyValue("float", "1.0"), PyValue("float", "0.5"),
      PyValue("NoneType", "None") }

\* The numeric value of an int, bool or float, counted in halves.
Number(v) ==
    CASE v.text \in {"0", "0.0", "False"} -> 0
      [] v.text = "0.5" -> 1
      [] v.text \in {"1", "1.0", "True"} -> 2
      [] v.text = "2" -> 4

\* a == b of Python: numbers (int, bool, float) by numeric value, anything
\* else only with a value of its own class.
PyEq(a, b) ==
    IF a.type \in {"int", "bool", "float"} /\ b.type \in {"int", "bool", "float"}
    THEN Number(a) = Number(b)
    ELSE a = b

\* int(value): a number truncated, a decimal string parsed.
int(v) ==
    IF v.type = "str" THEN (IF v.text = "1" THEN 1 ELSE 0)
    ELSE Number(v) \div 2

\* OutputsDict.value_filter: supported_values
supported_values ==
    << PyValue("int", "0"), PyValue("str", "0"), PyValue("bool", "False"),
       PyValue("int", "1"), PyValue("str", "1"), PyValue("bool", "True") >>

\* OutputsDict.value_filter accepting a supported value of its own class only.
value_filter_exact(v) ==
    IF \E i \in 1..Len(supported_values) : v = supported_values[i]
    THEN [raised |-> "none", value |-> int(v)]
    ELSE [raised |-> "ValueError", value |-> 0]

\* OutputsDict.value_filter: `value not in supported_values` compares with ==.
value_filter(v) ==
    IF \E i \in 1..Len(supported_values) : PyEq(v, supported_values[i])
    THEN [raised |-> "none", value |-> int(v)]
    ELSE [raised |-> "ValueError", value |-> 0]

\* The keyword arguments of OutputsDict(**outputs).
RawDicts == UNION {[K -> PyValues] : K \in SUBSET OutputNames}

\* State(name, raw): FilteredDict.__init__ filters every value; the first
\* refused value ends the construction and no State comes to be.
ConstructState(name, raw) ==
    /\ ret = NoCall
    /\ Cardinality(DOMAIN states) < MaxStates
    /\ IF \E k \in DOMAIN raw : value_filter(raw[k]).raised # "none"
       THEN /\ ret' = [op |-> "OutputsDict", args |-> <<raw, Cardinality(DOMAIN states)>>,
                       raised |-> "ValueError", value |-> {}]
            /\ UNCHANGED states
       ELSE /\ ret' = [op |-> "OutputsDict", args |-> <<raw, Cardinality(DOMAIN states)>>,
                       raised |-> "none", value |-> {Cardinality(DOMAIN states) + 1}]
            /\ states' = states @@
                  ((Cardinality(DOMAIN states) + 1) :>
                      [name |-> name,
                       outputs |-> [k \in DOMAIN raw |-> value_filter(raw[k]).value]])
    /\ UNCHANGED <<conds, condset, stateset, trans, transset, default_state, tool, gen,
                 default_transition>>

\* state.outputs[k] = v: FilteredDict.__setitem__; the mapping before the
\* call is kept with the arguments.
SetItem(s, k, v) ==
    /\ ret = NoCall
    /\ s \in DOMAIN states
    /\ LET r == value_filter(v)
           before == states[s].outputs
       IN  /\ ret' = [op |-> "setitem", args |-> <<s, k, v, before>>,
                      raised |-> r.raised, value |-> {}]
           /\ IF r.raised # "none" THEN UNCHANGED states
              ELSE states' = [states EXCEPT ![s].outputs =
                                [n \in DOMAIN before \cup {k} |->
                                    IF n = k THEN r.value ELSE before[n]]]
    /\ UNCHANGED <<conds, condset, stateset, trans, transset, default_state, tool, gen,
                 default_transition>>

InitOutputs == InitCond

NextOutputs ==
    \/ \E raw \in RawDicts : ConstructState("s0", raw)
    \/ \E s \in DOMAIN states, k \in OutputNames, v \in PyValues : SetItem(s, k, v)
    \/ Return

SpecOutputs == InitOutputs /\ [][NextOutputs]_vars

(***************************************************************************)
(* Claims about OutputsDict, checked under SpecOutputs.                    *)
(***************************************************************************)
Listed0 == {PyValue("int", "0"), PyValue("str", "0"), PyValue("bool", "False")}
Listed1 == {PyValue("int", "1"), PyValue("str", "1"), PyValue("bool", "True")}

\* Every stored output value is the integer 0 or 1.
StoredBits ==
    \A s \in DOMAIN states : \A k \in DOMAIN states[s].outputs :
        states[s].outputs[k] \in {0, 1}

\* The outcome of constructions and assignments when exactly the values of
\* `zero` store 0, exactly those of `one` store 1 and every other value is
\* refused with ValueError, the mapping staying as it was.
Filtered(zero, one) ==
    /\ StoredBits
    /\ ret.op = "setitem" =>
          LET s == ret.args[1]
              k == ret.args[2]
              v == ret.args[3]
              before == ret.args[4]
          IN  /\ v \in zero => ret.raised = "none" /\ states[s].outputs[k] = 0
              /\ v \in one => ret.raised = "none" /\ states[s].outputs[k] = 1
              /\ v \notin zero \cup one =>
                    ret.raised = "ValueError" /\ states[s].outputs = before
              /\ ret.raised = "none" =>
                    \A n \in DOMAIN before \ {k} : states[s].outputs[n] = before[n]
    /\ ret.op = "OutputsDict" =>
          LET raw == ret.args[1]
              count == ret.args[2]
          IN  IF \E k \in DOMAIN raw : raw[k] \notin zero \cup one
              THEN ret.raised = "ValueError" /\ Cardinality(DOMAIN states) = count
              ELSE /\ ret.raised = "none"
                   /\ \A s \in ret.value :
                         /\ DOMAIN states[s].outputs = DOMAIN raw
                         /\ \A k \in DOMAIN raw :
                               states[s].outputs[k] = IF raw[k] \in one THEN 1 ELSE 0

MonotonicSet_value_filter(v) ==
    IF v \in DOMAIN states THEN "none" ELSE "TypeError"

\* A call stateset.add(v): FilteredSet.add filters, then adds; the members
\* before the call are kept with the arguments.
CallStateSetAdd(v) ==
    /\ ret = NoCall
    /\ ret' = [op |-> "add", args |-> <<v, stateset>>,
               raised |-> MonotonicSet_value_filter(v), value |-> {}]
    /\ stateset' = IF MonotonicSet_value_filter(v) = "none"
                   THEN stateset \cup {v}
                   ELSE stateset
    /\ UNCHANGED <<conds, condset, states, trans, transset, default_state, tool, gen,
                 default_transition>>

\* A call stateset.discard(v): FilteredSet.discard hands the value to the
\* underlying set as it is.
CallStateSetDiscard(v) ==
    /\ ret = NoCall
    /\ ret' = [op |-> "discard", args |-> <<v, stateset>>,
               raised |-> "none", value |-> {}]
    /\ stateset' = stateset \ {v}
    /\ UNCHANGED <<conds, condset, states, trans, transset, default_state, tool, gen,
                 default_transition>>

InitFiltered == InitState

NextFiltered ==
    \/ \E n \in StateNames : NewState(n, EmptyFn)
    \/ \E v \in {None} \cup DOMAIN states : CallStateSetAdd(v)
    \/ \E v \in {None} \cup DOMAIN states : CallStateSetDiscard(v)
    \/ Return

SpecFiltered == InitFiltered /\ [][NextFiltered]_vars

\* C15: a type-filtered set applies its value filter on removal exactly as
\* on insertion: StateSet.add(v) and StateSet.discard(v) both fail with
\* TypeError when v is not a State, leaving the set unchanged; after
\* discard(v) of a State v, v is not a member.
C15_FilterOnRemoval ==
    ret.op \in {"add", "discard"} =>
        LET v == ret.args[1]
            before == ret.args[2]
        IN  /\ v \notin DOMAIN states => ret.raised = "TypeError" /\ stateset = before
            /\ (v \in DOMAIN states /\ ret.op = "add") =>
                  ret.raised = "none" /\ stateset = before \cup {v}
            /\ (v \in DOMAIN states /\ ret.op = "discard") =>
                  ret.raised = "none" /\ stateset = before \ {v}

(***************************************************************************)
(* MooreFiniteStateMachine (moore_finite_state_machine.py): its _states    *)
(* is stateset, its _transitions is transset, its _default is              *)
(* default_state.  A State object here is [name, outputs, default].        *)
(***************************************************************************)
\* The State objects at hand: the first two are distinct instances with the
\* same name and outputs.
FsmStates ==
    << [name |-> "s0", outputs |-> [o \in {"u"} |-> 1], default |-> FALSE],
       [name |-> "s0", outputs |-> [o \in {"u"} |-> 1], default |-> FALSE],
       [name |-> "s1", outputs |-> [o \in {"u", "v"} |-> 0], default |-> FALSE] >>

\* The Condition objects at hand: Condition('x'), Condition('y').
FsmConditions == <<X, Y>>

\* set.add where members are told apart by their name and outputs.
StateSet_add_by_value(S, v) ==
    IF \E m \in S : states[m].name = states[v].name /\ states[m].outputs = states[v].outputs
    THEN S
    ELSE S \cup {v}

\* StateSet.add / FilteredSet.add: set.add of the instance (a State is
\* hashed and compared by identity).
StateSet_add(S, v) == S \cup {v}

\* MooreFiniteStateMachine.add_state making every added state the default.
add_state_always_default(state, default) ==
    /\ ret = NoCall
    /\ state \in DOMAIN states
    /\ stateset' = StateSet_add(stateset, state)
    /\ default_state' = state
    /\ states' = [states EXCEPT ![state].default = TRUE]
    /\ ret' = [op |-> "add_state",
               args |-> <<state, default, default_state, Cardinality(stateset),
                          state \in stateset>>,
               raised |-> "none", value |-> {}]
    /\ UNCHANGED <<conds, condset, trans, transset, tool, gen, default_transition>>

\* add_state making `state` the default without registering it.
add_state_unregistered(state, default) ==
    /\ ret = NoCall
    /\ state \in DOMAIN states
    /\ stateset' = IF default THEN stateset ELSE StateSet_add(stateset, state)
    /\ IF default
       THEN /\ default_state' = state
            /\ states' = [states EXCEPT ![state].default = TRUE]
       ELSE UNCHANGED <<default_state, states>>
    /\ ret' = [op |-> "add_state",
               args |-> <<state, default, default_state, Cardinality(stateset),
                          state \in stateset>>,
               raised |-> "none", value |-> {}]
    /\ UNCHANGED <<conds, condset, trans, transset, tool, gen, default_transition>>

\* MooreFiniteStateMachine.add_state(state, default); the default state, the
\* number of states and the membership of `state` before the call are kept
\* with the arguments.
add_state(state, default) ==
    /\ ret = NoCall
    /\ state \in DOMAIN states
    /\ stateset' = StateSet_add(stateset, state)
    /\ IF default
       THEN /\ default_state' = state
            /\ states' = [states EXCEPT ![state].default = TRUE]
       ELSE UNCHANGED <<default_state, states>>
    /\ ret' = [op |-> "add_state",
               args |-> <<state, default, default_state, Cardinality(stateset),
                          state \in stateset>>,
               raised |-> "none", value |-> {}]
    /\ UNCHANGED <<conds, condset, trans, transset, tool, gen, default_transition>>

\* Transition(source, destination, condition): a new Transition object
\* holding an existing Condition object, not yet registered.
NewTransition(s, d, c) ==
    /\ ret = NoCall
    /\ Cardinality(DOMAIN trans) < MaxTrans
    /\ trans' = trans @@ ((Cardinality(DOMAIN trans) + 1) :>
                            [source |-> s, destination |-> d, condition |-> c])
    /\ UNCHANGED <<conds, condset, states, stateset, transset, default_state, tool, gen,
                 default_transition, ret>>

\* MooreFiniteStateMachine.add_transition(transition); the number of
\* transitions, the membership of `transition`, the states and the default
\* state before the call are kept with the arguments.
add_transition(transition) ==
    /\ ret = NoCall
    /\ transition \in DOMAIN trans
    /\ transset' = transset \cup {transition}
    /\ ret' = [op |-> "add_transition",
               args |-> <<transition, Cardinality(transset), transition \in transset,
                          stateset, default_state, tool, gen,
                 default_transition>>,
               raised |-> "none", value |-> {}]
    /\ UNCHANGED <<conds, condset, states, stateset, trans, default_state, tool, gen,
                 default_transition>>

\* TransitionSet.conditions remembering the Condition each member was built
\* with (the Transition t of a fixed set is built with the Condition t).
conditions_as_built(S) == S

\* TransitionSet.conditions: the ConditionSet of the members' Condition objects.
conditions(S) == {trans[t].condition : t \in S}

\* AbstractCondition.inputs
Condition_inputs(c) == symbols(conds[c])

\* ConditionSet.inputs
ConditionSet_inputs(C) == UNION {Condition_inputs(c) : c \in C}

\* MooreFiniteStateMachine.inputs taken over every Transition object built.
fsm_inputs_built == ConditionSet_inputs(conditions(DOMAIN trans))

\* MooreFiniteStateMachine.inputs
fsm_inputs == ConditionSet_inputs(conditions(transset))

\* MooreFiniteStateMachine.outputs / StateSet.outputs: the Counter of output
\* names over the member states.
fsm_outputs == [o \in OutputKeys(stateset) |-> OutputCount(stateset, o)]

\* StateSet.names: the Counter of names over the member states.
names(S) == [n \in NameKeys(S) |-> Cardinality({s \in S : states[s].name = n})]

InitFsm ==
    /\ conds = FsmConditions
    /\ condset = {}
    /\ states = FsmStates
    /\ stateset = {}
    /\ trans = EmptyFn
    /\ transset = {}
    /\ default_state = None
    /\ tool = "none"
    /\ gen = NoGen
    /\ default_transition = None
    /\ ret = NoCall

NextFsm ==
    \/ \E s \in DOMAIN states, d \in BOOLEAN : add_state(s, d)
    \/ \E c \in DOMAIN conds : NewTransition(1, 3, c)
    \/ \E t \in DOMAIN trans : add_transition(t)
    \/ Return

SpecFsm == InitFsm /\ [][NextFsm]_vars

(***************************************************************************)
(* Claims about MooreFiniteStateMachine, checked under SpecFsm.            *)
(***************************************************************************)
\* C16: after any sequence of add_state calls, default_state is the state of
\* the most recent call with default=True (None when there was none) and
\* that state's own default flag is true; a call with default=False
\* registers the state and leaves default_state as it was.
C16_DefaultState ==
    /\ ret.op = "add_state" =>
          LET state == ret.args[1]
              default == ret.args[2]
              before == ret.args[3]
          IN  /\ state \in stateset
              /\ default => default_state = state
              /\ ~default => default_state = before
    /\ default_state # None => states[default_state].default
    /\ default_state = None <=> \A s \in DOMAIN states : ~states[s].default

\* add_state(s, default=False) has registered a new state while another
\* state, made the default earlier, stays the default.
C16_Witness ==
    /\ ret.op = "add_state"
    /\ ~ret.args[2]
    /\ ~ret.args[5]
    /\ default_state # None
    /\ default_state # ret.args[1]
    /\ \E s \in stateset \ {default_state} : states[s].default

\* The sum of the counts of a Counter.
RECURSIVE Total(_)
Total(counter) ==
    IF DOMAIN counter = {} THEN 0
    ELSE LET k == CHOOSE k \in DOMAIN counter : TRUE
         IN  counter[k] + Total([n \in DOMAIN counter \ {k} |-> counter[n]])

\* C17: states and transitions are registered by identity: adding a distinct
\* instance whose fields equal those of a member grows the collection by
\* one, adding the same instance again leaves the size unchanged, and
\* StateSet.names counts every member carrying a name.
C17_Identity ==
    /\ ret.op = "add_state" =>
          /\ ret.args[1] \in stateset
          /\ Cardinality(stateset) = ret.args[4] + (IF ret.args[5] THEN 0 ELSE 1)
    /\ ret.op = "add_transition" =>
          /\ ret.args[1] \in transset
          /\ Cardinality(transset) = ret.args[2] + (IF ret.args[3] THEN 0 ELSE 1)
    /\ Total(names(stateset)) = Cardinality(stateset)
    /\ \A s \in stateset : names(stateset)[states[s].name] >= 1

\* add_state has registered a State whose name and outputs equal those of
\* another member, and two registered Transition objects have the same
\* source, destination and condition.
C17_Witness ==
    /\ ret.op = "add_state"
    /\ ~ret.args[5]
    /\ \E m \in stateset \ {ret.args[1]} :
          /\ states[m].name = states[ret.args[1]].name
          /\ states[m].outputs = states[ret.args[1]].outputs
          /\ names(stateset)[states[m].name] = 2
    /\ \E t1, t2 \in transset : t1 # t2 /\ trans[t1] = trans[t2]

\* C18: after any sequence of add_state and add_transition calls, fsm.inputs
\* is the union of the symbols of the conditions of all registered
\* transitions, and fsm.outputs maps each output name to the number of
\* registered states that carry it; both are empty for an empty machine.
C18_InputsOutputs ==
    /\ fsm_inputs = UNION {symbols(conds[trans[t].condition]) : t \in transset}
    /\ DOMAIN fsm_outputs =
          {o \in OutputNames : \E s \in stateset : o \in DOMAIN states[s].outputs}
    /\ \A o \in DOMAIN fsm_outputs :
          fsm_outputs[o] = Cardinality({s \in stateset : o \in DOMAIN states[s].outputs})
    /\ (stateset = {} /\ transset = {}) => (fsm_inputs = {} /\ DOMAIN fsm_outputs = {})

\* A machine with a built but unregistered transition whose symbol is not an
\* input, two registered transitions, and an output carried by three states
\* next to one carried by a single state.
C18_Witness ==
    /\ Cardinality(transset) = 2
    /\ fsm_inputs_built # fsm_inputs
    /\ fsm_inputs # {}
    /\ \E o1, o2 \in DOMAIN fsm_outputs : fsm_outputs[o1] = 3 /\ fsm_outputs[o2] = 1

(***************************************************************************)
(* Equality of Condition objects (condition.py), checked under SpecCond.   *)
(***************************************************************************)
\* Equality of Conditions by the structural equality of their expressions.
Condition_eq_structural(c1, c2) == ExprEq(conds[c1], conds[c2])

\* c1 == c2 for Condition objects: AbstractCondition defines neither __eq__
\* nor __hash__, so this is object identity.
Condition_eq(c1, c2) == c1 = c2

\* len(ConditionSet): the members of the underlying set, equal members
\* taking one slot.
ConditionSet_len(S) == Cardinality({{d \in S : Condition_eq(c, d)} : c \in S})

TransCatalogue == {X, Not(X), Y, And(<<Not(X), Y>>), T}

\* The members of S leaving the state s.
Leaving(S, s) == {t \in S : trans[t].source = s}

\* TransitionSet.is_exclusive taken source state by source state.
is_exclusive_per_source(S) == \A s \in sources(S) : exclusive(conditions(Leaving(S, s)))

\* TransitionSet.is_exclusive
is_exclusive(S) == exclusive(conditions(S))

\* TransitionSet.is_exhaustive
is_exhaustive(S) == exhaustive(conditions(S))

InitTransCond == Init

NextTransCond == \E s \in {1, 2}, e \in TransCatalogue : AddTransition(s, 3, e)

SpecTransCond == InitTransCond /\ [][NextTransCond]_vars

\* The conditions of the transitions t1 and t2 can be true together.
CanFireTogether(t1, t2) == Overlap(trans[t1].condition, trans[t2].condition)

\* Under every assignment the condition of some member of S is true.
Tautology(S) == \A a \in Assignments : \E t \in S : Eval(conds[trans[t].condition], a)

ReplaceConditions == <<Or(<<X, Not(Y)>>), And(<<Not(X), Y>>)>>

\* trans1 = Transition(state0, state1, .), trans2 = Transition(state0, state2, .)
ReplaceTransitions ==
    << [source |-> 1, destination |-> 2, condition |-> 1],
       [source |-> 1, destination |-> 3, condition |-> 2] >>

\* transition.condition = Condition(e): a new Condition object takes the
\* place of the old one in the Transition object; the members before the
\* call are kept with the arguments.
SetCondition(t, e) ==
    /\ ret = NoCall
    /\ t \in DOMAIN trans
    /\ Cardinality(DOMAIN conds) < Len(ReplaceConditions) + MaxReplace
    /\ LET c == Cardinality(DOMAIN conds) + 1
       IN  /\ conds' = conds @@ (c :> e)
           /\ trans' = [trans EXCEPT ![t].condition = c]
    /\ ret' = [op |-> "set_condition", args |-> <<t, transset, e>>,
               raised |-> "none", value |-> {}]
    /\ UNCHANGED <<condset, states, stateset, transset, default_state, tool, gen,
                 default_transition>>

\* A call transitions.is_exclusive().
CallIsExclusive ==
    /\ ret = NoCall
    /\ ret' = [op |-> "is_exclusive", args |-> <<>>,
               raised |-> "none", value |-> {is_exclusive(transset)}]
    /\ UNCHANGED <<conds, condset, states, stateset, trans, transset, default_state, tool, gen,
                 default_transition>>

\* A call transitions.is_exhaustive().
CallIsExhaustive ==
    /\ ret = NoCall
    /\ ret' = [op |-> "is_exhaustive", args |-> <<>>,
               raised |-> "none", value |-> {is_exhaustive(transset)}]
    /\ UNCHANGED <<conds, condset, states, stateset, trans, transset, default_state, tool, gen,
                 default_transition>>

InitReplace ==
    /\ conds = ReplaceConditions
    /\ condset = {}
    /\ states = TestStates
    /\ stateset = {}
    /\ trans = ReplaceTransitions
    /\ transset = DOMAIN ReplaceTransitions
    /\ default_state = None
    /\ tool = "none"
    /\ gen = NoGen
    /\ default_transition = None
    /\ ret = NoCall

NextReplace ==
    \/ \E t \in DOMAIN trans, e \in Catalogue : SetCondition(t, e)
    \/ \E b \in Bindings : CallEvaluate(b)
    \/ CallIsExclusive
    \/ CallIsExhaustive
    \/ Return

SpecReplace == InitReplace /\ [][NextReplace]_vars

\* The expression a member transition holds now.
Current(t) == conds[trans[t].condition]

\* C21: a TransitionSet holds its transitions by reference and caches no
\* derived result: replacing a member's condition leaves the membership
\* unchanged, and every later evaluate(), is_exclusive() or is_exhaustive()
\* is computed from the conditions the members hold at the call.
C21_NoCache ==
    /\ ret.op = "set_condition" =>
          /\ transset = ret.args[2]
          /\ Current(ret.args[1]) = ret.args[3]
    /\ ret.op = "evaluate" =>
          IF \A t \in transset : Condition_evaluate(Current(t), ret.args[1]) \in {T, F}
          THEN /\ ret.raised = "none"
               /\ ret.value =
                     {t \in transset : Condition_evaluate(Current(t), ret.args[1]) = T}
          ELSE ret.raised = "TypeError"
    /\ ret.op = "is_exclusive" =>
          ret.value = {\A t1, t2 \in transset : t1 # t2 => ~CanFireTogether(t1, t2)}
    /\ ret.op = "is_exhaustive" =>
          ret.value = {transset # {} /\ Tautology(transset)}

\* is_exclusive() answered false for transitions that were exclusive as
\* built, after a condition was replaced.
C21_Witness ==
    /\ ret.op = "is_exclusive"
    /\ ret.value = {FALSE}
    /\ ~Overlap(1, 2)
    /\ \E t \in transset : trans[t].condition # t

(***************************************************************************)
(* StateSet.__getitem__ / __delitem__ (state.py), checked under            *)
(* SpecDelItem.                                                            *)
(***************************************************************************)
\* StateSet.__getitem__: the member states with the name state_name.
getitem(S, state_name) == {s \in S : state_name = states[s].name}

\* A call `del stateset[state_name]`: StateSet.__delitem__ binds the
\* difference self - self[state_name] to its local name `self`; the
\* StateSet object is not touched.  The members before the call are kept
\* with the arguments.
CallDelItem(state_name) ==
    /\ ret = NoCall
    /\ LET self == stateset \ getitem(stateset, state_name)
       IN  ret' = [op |-> "delitem", args |-> <<state_name, stateset>>,
                   raised |-> "none", value |-> {}]
    /\ UNCHANGED <<conds, condset, states, stateset, trans, transset, default_state, tool, gen,
                 default_transition>>

InitDelItem == InitState

NextDelItem ==
    \/ \E n \in StateNames, o \in OutputDicts : ret = NoCall /\ NewState(n, o)
    \/ \E s \in DOMAIN states : ret = NoCall /\ StateSetAdd(s)
    \/ \E n \in StateNames : CallDelItem(n)
    \/ Return

SpecDelItem == InitDelItem /\ [][NextDelItem]_vars

\* C22: del states[name] removes every member state whose name is name and
\* leaves all other members in place, so that afterwards states[name] is
\* empty.
C22_DeleteByName ==
    ret.op = "delitem" =>
        /\ getitem(stateset, ret.args[1]) = {}
        /\ \A s \in ret.args[2] : states[s].name # ret.args[1] => s \in stateset

(***************************************************************************)
(* The meaning of the VHDL text, checked under SpecVhdl.                   *)
(***************************************************************************)
Assignments3 == [{"x", "y", "z"} -> BOOLEAN]

\* The number of parentheses open before the i-th piece of a text.
Depth(text, i) ==
    Cardinality({j \in 1..(i - 1) : text[j] = "("})
        - Cardinality({j \in 1..(i - 1) : text[j] = ")"})

\* The positions of an operator outside every pair of parentheses.
TopLevel(text, operator) ==
    {i \in 1..Len(text) : text[i] = operator /\ Depth(text, i) = 0}

First(S) == CHOOSE i \in S : \A j \in S : i <= j

\* The truth value of a text under an assignment: n='1' is true iff n is 1,
\* n='0' is true iff n is 0, `and` binds tighter than `or`, `not` negates
\* the parenthesized text after it.
RECURSIVE Reads(_, _)
Reads(text, a) ==
    IF TopLevel(text, " or ") # {}
    THEN LET i == First(TopLevel(text, " or "))
         IN  Reads(SubSeq(text, 1, i - 1), a) \/ Reads(SubSeq(text, i + 1, Len(text)), a)
    ELSE IF TopLevel(text, " and ") # {}
    THEN LET i == First(TopLevel(text, " and "))
         IN  Reads(SubSeq(text, 1, i - 1), a) /\ Reads(SubSeq(text, i + 1, Len(text)), a)
    ELSE IF text[1] = "not " THEN ~Reads(Tail(text), a)
    ELSE IF text[1] = "(" THEN Reads(SubSeq(text, 2, Len(text) - 1), a)
    ELSE IF Len(text) = 2 THEN a[text[1]] = (text[2] = "='1'")
    ELSE text[1] = "true"

\* C24: lowering preserves meaning: for every expression built from
\* literals, variables, Not, And and Or (nested negations and negations of
\* compound operands over one variable included) and every 0/1 assignment
\* of its symbols, the truth value of Condition.vhdl equals the truth value
\* of the expression.
C24_MeaningPreserved ==
    \A c \in DOMAIN conds : \A a \in Assignments3 :
        Reads(vhdl(conds[c]), a) = Eval(conds[c], a)

(***************************************************************************)
(* The order of the two reachability failures, checked under Spec.         *)
(***************************************************************************)
\* C25: when the set holds both a source-only state and a destination-only
\* state, check_reachability() fails with UnreachableState and never with
\* UnexitableState; UnexitableState is raised only when no source-only
\* state exists.
C25_UnreachableFirst ==
    ret.op = "check_reachability" =>
        /\ (SourceOnly # {} /\ DestinationOnly # {}) =>
               (ret.raised = "UnreachableState" /\ ret.raised # "UnexitableState")
        /\ ret.raised = "UnexitableState" => SourceOnly = {}

\* check_reachability() was called on a single transition between two
\* distinct states and failed.
C25_Witness ==
    /\ ret.op = "check_reachability"
    /\ ret.raised # "none"
    /\ Cardinality(transset) = 1
    /\ \A t \in transset : trans[t].source # trans[t].destination

(***************************************************************************)
(* The default state and the shared Condition, checked under SpecFsm.      *)
(***************************************************************************)
\* C27: after any sequence of add_state and add_transition calls,
\* default_state is either None or a member of states; add_transition
\* changes neither states nor default_state.
C27_DefaultIsMember ==
    /\ default_state = None \/ default_state \in stateset
    /\ ret.op = "add_transition" =>
          /\ stateset = ret.args[4]
          /\ default_state = ret.args[5]

\* add_transition has registered a new transition in a machine that has a
\* default state and another state.
C27_Witness ==
    /\ ret.op = "add_transition"
    /\ ~ret.args[3]
    /\ default_state # None
    /\ stateset \ {default_state} # {}

\* C26: if is_exclusive() returns true, then for every two distinct member
\* transitions and every input assignment at most one of the two
\* transitions' conditions is true, also when two member transitions carry
\* the same Condition instance.
C26_ExclusiveMeansDisjoint ==
    is_exclusive(transset) =>
        \A t1, t2 \in transset : t1 # t2 => ~CanFireTogether(t1, t2)

(***************************************************************************)
(* utils/coroutine.py and the editor's create-transition tool.  A          *)
(* generator is a record [function, yields, end_behavior, received, done]: *)
(* the generator function it runs, the number of yield expressions the     *)
(* function passes before it returns, the end_behavior of the wrapper that *)
(* holds it, the events it was sent, and whether it has returned.  A       *)
(* generator that is not done is suspended at its yield number             *)
(* Len(received) + 1.                                                      *)
(***************************************************************************)
MaxYields == 3
MaxEditorStates == 2
MaxEditorTrans == 2

EndBehaviors == {"loop", "refresh"}

\* gen = generator_func(*args, **kwargs); next(gen): a new generator run up
\* to its first yield.
Generator(function, yields, end_behavior) ==
    [function |-> function, yields |-> yields, end_behavior |-> end_behavior,
     received |-> <<>>, done |-> FALSE]

\* gen.send(event): the generator after the call, the exception raised, and
\* the events of a run that reached the end of the function body.
send(g, event) ==
    IF g.done
    THEN [gen |-> g, raised |-> "StopIteration", completed |-> {}]
    ELSE IF Len(g.received) + 1 < g.yields
    THEN [gen |-> [g EXCEPT !.received = Append(@, event)],
          raised |-> "none", completed |-> {}]
    ELSE [gen |-> [g EXCEPT !.received = Append(@, event), !.done = TRUE],
          raised |-> "StopIteration", completed |-> {Append(g.received, event)}]

\* coroutine_iteration sending the exhausting event to the fresh generator
\* whatever the end_behavior.
coroutine_iteration_resend(g, event) ==
    LET first == send(g, event)
        again == send(Generator(g.function, g.yields, g.end_behavior), event)
    IN  IF first.raised = "none"
        THEN first
        ELSE [gen |-> again.gen, raised |-> again.raised,
              completed |-> first.completed \cup again.completed]

\* coroutine_iteration(event) of the wrapper holding the generator g.
coroutine_iteration(g, event) ==
    LET first == send(g, event)
        fresh == Generator(g.function, g.yields, g.end_behavior)
        again == send(fresh, event)
    IN  IF first.raised = "none"
        THEN first
        ELSE IF g.end_behavior = "loop"
        THEN [gen |-> again.gen, raised |-> again.raised,
              completed |-> first.completed \cup again.completed]
        ELSE [gen |-> fresh, raised |-> "none", completed |-> first.completed]

\* coroutine_initialization() of a generator function wrapped with
\* @coroutine(end_behavior): the callback it returns holds a primed generator.
coroutine_initialization(yields, end_behavior) ==
    /\ ret = NoCall
    /\ tool' = "none"
    /\ gen' = Generator("generator_func", yields, end_behavior)
    /\ UNCHANGED <<conds, condset, states, stateset, trans, transset, default_state,
                   default_transition, ret>>

\* DrawingArea.create_transition_tool: reset_mouse(), then a new
\* _create_transition_co() callback is bound to clicks on states.
create_transition_tool ==
    /\ ret = NoCall
    /\ tool' = "create_transition"
    /\ gen' = Generator("_create_transition_co", 2, "refresh")
    /\ UNCHANGED <<conds, condset, states, stateset, trans, transset, default_state,
                   default_transition, ret>>

\* The end of the body of _create_transition_co adding the Transition
\* without asking from_states.
create_transition_unchecked(source, destination) ==
    LET c == Cardinality(DOMAIN conds) + 1
        t == Cardinality(DOMAIN trans) + 1
    IN  /\ t <= MaxEditorTrans
        /\ conds' = conds @@ (c :> T)
        /\ trans' = trans @@ (t :> [source |-> source, destination |-> destination,
                                    condition |-> c])
        /\ transset' = transset \cup {t}

\* The end of the body of _create_transition_co, reached with
\* state['source'] and state['destination'] set: a Transition with its own
\* Condition widget showing "True" is created and added unless
\* from_states(source, destination) is non-empty.
create_transition(source, destination) ==
    IF from_states(transset, source, destination, "and").value # {}
    THEN UNCHANGED <<conds, trans, transset>>
    ELSE LET c == Cardinality(DOMAIN conds) + 1
             t == Cardinality(DOMAIN trans) + 1
         IN  /\ t <= MaxEditorTrans
             /\ conds' = conds @@ (c :> T)
             /\ trans' = trans @@ (t :> [source |-> source, destination |-> destination,
                                         condition |-> c])
             /\ transset' = transset \cup {t}

\* The callback returned by coroutine_initialization is called with an
\* event; for _create_transition_co the event is a click on a state and
\* find_closest_state(vevent) is that state.  The event, the generator and
\* the transitions before the call are kept with the arguments.
Callback(event) ==
    /\ ret = NoCall
    /\ gen # NoGen
    /\ LET r == coroutine_iteration(gen, event)
       IN  /\ gen' = r.gen
           /\ IF gen.function = "_create_transition_co" /\ r.completed # {}
              THEN \E state \in r.completed : create_transition(state[1], state[2])
              ELSE UNCHANGED <<conds, trans, transset>>
           /\ ret' = [op |-> "coroutine_iteration", args |-> <<event, gen, transset>>,
                      raised |-> r.raised, value |-> r.completed]
    /\ UNCHANGED <<condset, states, stateset, default_state, tool, default_transition>>

\* Three states drawn in the editor: State(center, name=next(state_names)),
\* the names counted from 0.
EditorStates ==
    << [name |-> 0, outputs |-> EmptyFn, default |-> FALSE],
       [name |-> 1, outputs |-> EmptyFn, default |-> FALSE],
       [name |-> 2, outputs |-> EmptyFn, default |-> FALSE] >>

InitCoroutine ==
    /\ conds = EmptyFn
    /\ condset = {}
    /\ states = EditorStates
    /\ stateset = DOMAIN EditorStates
    /\ trans = EmptyFn
    /\ transset = {}
    /\ default_state = None
    /\ tool = "none"
    /\ gen = NoGen
    /\ default_transition = None
    /\ ret = NoCall

NextCoroutine ==
    \/ \E n \in 1..MaxYields, b \in EndBehaviors : coroutine_initialization(n, b)
    \/ create_transition_tool
    \/ \E event \in stateset : Callback(event)
    \/ Return

SpecCoroutine == InitCoroutine /\ [][NextCoroutine]_vars

\* The transitions of S from source to destination.
Between(S, source, destination) ==
    {t \in S : trans[t].source = source /\ trans[t].destination = destination}

\* C23: a coroutine-wrapped generator is advanced exactly once per callback
\* call; when a call exhausts the generator a fresh generator is created and
\* primed to its first yield, and the exhausting event is sent again to the
\* fresh generator iff end_behavior is 'loop'.  With end_behavior='refresh',
\* as used by the create-transition tool, state clicks alternate source,
\* destination, source, ... and each completed pair makes exactly one
\* creation attempt.
C23_Coroutine ==
    ret.op = "coroutine_iteration" =>
        LET event == ret.args[1]
            before == ret.args[2]
            transitions == ret.args[3]
            exhausting == before.done \/ Len(before.received) + 1 = before.yields
        IN  /\ ~exhausting => gen = [before EXCEPT !.received = Append(@, event)]
            /\ exhausting =>
                  /\ gen.function = before.function
                  /\ gen.yields = before.yields
                  /\ gen.end_behavior = before.end_behavior
                  /\ gen.received =
                        IF before.end_behavior = "loop" THEN <<event>> ELSE <<>>
            /\ before.function = "_create_transition_co" =>
                  /\ before.end_behavior = "refresh"
                  /\ ~gen.done
                  /\ before.received = <<>> =>
                        (gen.received = <<event>> /\ transset = transitions)
                  /\ before.received # <<>> =>
                        LET source == before.received[1]
                        IN  /\ gen.received = <<>>
                            /\ transitions \subseteq transset
                            /\ Cardinality(Between(transset, source, event)) = 1
                            /\ transset \ transitions \subseteq Between(transset, source, event)

\* The fourth click of the create-transition tool has created the second
\* transition, from the state of the third click to the state of the fourth.
C23_Witness ==
    /\ ret.op = "coroutine_iteration"
    /\ ret.args[2].function = "_create_transition_co"
    /\ ret.args[2].received # <<>>
    /\ Cardinality(ret.args[3]) = 1
    /\ Cardinality(transset) = 2
    /\ gen.received = <<>>

(***************************************************************************)
(* The editor, customwidgets/drawing_area.py.  A click on a state hands    *)
(* the handler the state find_closest_state returns, any state of the      *)
(* editor; the handlers of one tool are bound at a time.  A deleted State  *)
(* or Transition keeps its handle and leaves the editor's sets.  Moving    *)
(* states and the preview circle of the create-state tool change no state  *)
(* kept here.                                                              *)
(***************************************************************************)
create_state_tool ==
    /\ ret = NoCall
    /\ tool' = "create_state"
    /\ gen' = NoGen
    /\ UNCHANGED <<conds, condset, states, stateset, trans, transset, default_state,
                   default_transition, ret>>

delete_state_tool ==
    /\ ret = NoCall
    /\ tool' = "delete_state"
    /\ gen' = NoGen
    /\ UNCHANGED <<conds, condset, states, stateset, trans, transset, default_state,
                   default_transition, ret>>

delete_transition_tool ==
    /\ ret = NoCall
    /\ tool' = "delete_transition"
    /\ gen' = NoGen
    /\ UNCHANGED <<conds, condset, states, stateset, trans, transset, default_state,
                   default_transition, ret>>

set_default_state_tool ==
    /\ ret = NoCall
    /\ tool' = "set_default_state"
    /\ gen' = NoGen
    /\ UNCHANGED <<conds, condset, states, stateset, trans, transset, default_state,
                   default_transition, ret>>

\* DrawingArea._create_state: `near` tells whether the closest existing
\* state is within 2.5 radii of the click.  The k-th State created is named
\* by the counter value k - 1.
create_state(near) ==
    /\ ret = NoCall
    /\ tool = "create_state"
    /\ near => stateset # {}
    /\ IF near
       THEN UNCHANGED <<states, stateset>>
       ELSE LET state == Cardinality(DOMAIN states) + 1
            IN  /\ state <= MaxEditorStates
                /\ states' = states @@ (state :> [name |-> state - 1, outputs |-> EmptyFn,
                                                  default |-> FALSE])
                /\ stateset' = stateset \cup {state}
    /\ ret' = [op |-> "_create_state", args |-> <<near, stateset>>,
               raised |-> "none", value |-> {}]
    /\ UNCHANGED <<conds, condset, trans, transset, default_state, tool, gen,
                   default_transition>>

\* _delete_state discarding only the transitions that leave the state.
delete_state_outgoing(target_state) ==
    /\ ret = NoCall
    /\ tool = "delete_state"
    /\ target_state \in stateset
    /\ default_transition' =
          IF states[target_state].default /\ default_transition # None
          THEN None ELSE default_transition
    /\ transset' = transset \ from_states(transset, target_state, None, "and").value
    /\ stateset' = stateset \ {target_state}
    /\ ret' = [op |-> "_delete_state",
               args |-> <<target_state, stateset, transset, default_transition>>,
               raised |-> "none", value |-> {}]
    /\ UNCHANGED <<conds, condset, states, trans, default_state, tool, gen>>

\* DrawingArea._delete_state; the states, the transitions and the default
\* transition before the call are kept with the arguments.
delete_state(target_state) ==
    /\ ret = NoCall
    /\ tool = "delete_state"
    /\ target_state \in stateset
    /\ default_transition' =
          IF states[target_state].default /\ default_transition # None
          THEN None ELSE default_transition
    /\ LET incident_transitions ==
               from_states(transset, target_state, target_state, "or").value
       IN  transset' = transset \ incident_transitions
    /\ stateset' = stateset \ {target_state}
    /\ ret' = [op |-> "_delete_state",
               args |-> <<target_state, stateset, transset, default_transition>>,
               raised |-> "none", value |-> {}]
    /\ UNCHANGED <<conds, condset, states, trans, default_state, tool, gen>>

\* DrawingArea._delete_transition for a click whose halo overlaps the arc of
\* some transition: transitions[0] is any of the transitions found.
delete_transition(transition) ==
    /\ ret = NoCall
    /\ tool = "delete_transition"
    /\ transition \in transset
    /\ transset' = transset \ {transition}
    /\ ret' = [op |-> "_delete_transition", args |-> <<transition, transset>>,
               raised |-> "none", value |-> {}]
    /\ UNCHANGED <<conds, condset, states, stateset, trans, default_state, tool, gen,
                   default_transition>>

\* _set_default_state leaving the flag of the previous default state set.
set_default_state_keeping(new_default_state) ==
    /\ ret = NoCall
    /\ tool = "set_default_state"
    /\ new_default_state \in stateset
    /\ default_transition' = new_default_state
    /\ states' = [states EXCEPT ![new_default_state].default = TRUE]
    /\ ret' = [op |-> "_set_default_state",
               args |-> <<new_default_state, default_transition>>,
               raised |-> "none", value |-> {}]
    /\ UNCHANGED <<conds, condset, stateset, trans, transset, default_state, tool, gen>>

\* DrawingArea._set_default_state; the default transition before the call
\* is kept with the arguments.
set_default_state(new_default_state) ==
    /\ ret = NoCall
    /\ tool = "set_default_state"
    /\ new_default_state \in stateset
    /\ LET found == \E state \in stateset :
                        states[state].default /\ default_transition # None
           cleared == IF found
                      THEN [states EXCEPT ![default_transition].default = FALSE]
                      ELSE states
       IN  states' = [cleared EXCEPT ![new_default_state].default = TRUE]
    /\ default_transition' = new_default_state
    /\ ret' = [op |-> "_set_default_state",
               args |-> <<new_default_state, default_transition>>,
               raised |-> "none", value |-> {}]
    /\ UNCHANGED <<conds, condset, stateset, trans, transset, default_state, tool, gen>>

InitEditor ==
    /\ conds = EmptyFn
    /\ condset = {}
    /\ states = EmptyFn
    /\ stateset = {}
    /\ trans = EmptyFn
    /\ transset = {}
    /\ default_state = None
    /\ tool = "none"
    /\ gen = NoGen
    /\ default_transition = None
    /\ ret = NoCall

NextEditor ==
    \/ create_state_tool
    \/ delete_state_tool
    \/ create_transition_tool
    \/ delete_transition_tool
    \/ set_default_state_tool
    \/ \E near \in BOOLEAN : create_state(near)
    \/ \E s \in stateset : delete_state(s)
    \/ \E s \in stateset : Callback(s)
    \/ \E t \in transset : delete_transition(t)
    \/ \E s \in stateset : set_default_state(s)
    \/ Return

SpecEditor == InitEditor /\ [][NextEditor]_vars

\* The transitions of S that have the state s as source or as destination.
Touching(S, s) == {t \in S : trans[t].source = s \/ trans[t].destination = s}

\* The states of the editor whose default flag is set.
Flagged == {s \in stateset : states[s].default}

\* C28: after any sequence of create-state, create-transition,
\* delete-transition and delete-state operations, every transition in the
\* editor's transition set has both its source and its destination in the
\* editor's state set: deleting a state removes every transition that has
\* it as source or destination, self-loops included.
C28_NoDanglingTransition ==
    /\ \A t \in transset : trans[t].source \in stateset /\ trans[t].destination \in stateset
    /\ ret.op = "_delete_state" =>
          /\ stateset = ret.args[2] \ {ret.args[1]}
          /\ transset = ret.args[3] \ Touching(ret.args[3], ret.args[1])

\* A state with a self-loop and a transition to another state was deleted.
C28_Witness ==
    /\ ret.op = "_delete_state"
    /\ \E t1, t2 \in ret.args[3] :
          /\ trans[t1].source = ret.args[1] /\ trans[t1].destination = ret.args[1]
          /\ trans[t2].source # ret.args[1] /\ trans[t2].destination = ret.args[1]
    /\ stateset # {}

\* C29: after any sequence of set-default-state and delete-state
\* operations, at most one state has its default flag set, and the default
\* transition exists iff such a state exists and then points to exactly
\* that state; deleting the default state leaves the editor with no default
\* state.
C29_OneDefault ==
    /\ Cardinality(Flagged) <= 1
    /\ default_transition # None <=> Flagged # {}
    /\ default_transition # None => Flagged = {default_transition}
    /\ (ret.op = "_delete_state" /\ ret.args[4] = ret.args[1]) =>
          (default_transition = None /\ Flagged = {})

\* The default state was moved from one state to another, and the new
\* default state was then deleted while the first one stays in the editor.
C29_Witness ==
    /\ ret.op = "_delete_state"
    /\ ret.args[4] = ret.args[1]
    /\ default_transition = None
    /\ stateset # {}
    /\ ret.args[1] # 1
    /\ 1 \in stateset

\* C30: after any sequence of create-transition and delete operations no
\* two distinct transitions in the editor's transition set have the same
\* source and the same destination: a create-transition attempt for a
\* (source, destination) pair that already has a transition adds nothing,
\* while the reverse pair and self-loops are still allowed once each.
C30_NoParallelTransitions ==
    /\ \A t1, t2 \in transset :
          (/\ trans[t1].source = trans[t2].source
           /\ trans[t1].destination = trans[t2].destination) => t1 = t2
    /\ (/\ ret.op = "coroutine_iteration"
        /\ ret.args[2].received # <<>>) =>
          LET source == ret.args[2].received[1]
              destination == ret.args[1]
          IN  /\ Between(ret.args[3], source, destination) # {} => transset = ret.args[3]
              /\ Between(ret.args[3], source, destination) = {} =>
                    Cardinality(transset) = Cardinality(ret.args[3]) + 1

\* A second attempt for a pair added nothing, in an editor that holds the
\* pair and its reverse.
C30_Witness ==
    /\ ret.op = "coroutine_iteration"
    /\ ret.args[2].received # <<>>
    /\ transset = ret.args[3]
    /\ ret.args[2].received[1] # ret.args[1]
    /\ Between(transset, ret.args[2].received[1], ret.args[1]) # {}
    /\ Between(transset, ret.args[1], ret.args[2].received[1]) # {}

====
